---- MODULE Spec2Model ----
(***************************************************************************)
(* The Nashville Airbnb dashboards: three script variants that load a CSV  *)
(* export, clean it, and (two of them) bind Altair charts to an interval   *)
(* selection ("brush") over host_start_year.                               *)
(*                                                                         *)
(*   dataviz : datavisualization_assignment.py  (load_airbnb_data)         *)
(*   tiered  : week6_assignment.py              (load_and_clean_data)      *)
(*   nash    : streamlit_app.py                 (nash_airbnb + module code)*)
(*                                                                         *)
(* Cell values are records tagged by t:                                    *)
(*   "text" (s: sequence of characters, as read from the CSV),             *)
(*   "num"  (v: integer), "inf" (v: sign), "nan" (NaN / NaT / None),       *)
(*   "date" (y, m), "str" (s), "bool" (b).                                 *)
(* Prices are integers; quantiles are exact rationals kept as hundredths.  *)
(* The file is assumed to carry every column of the export.                *)
(***************************************************************************)
EXTENDS Integers, Sequences, FiniteSets, TLC

VARIABLES
    variant,              \* which script runs
    source,               \* "ok" | "absent" | "unreadable": what read_csv meets
    file,                 \* the CSV's records
    clock,                \* datetime.datetime.now().year
    cache,                \* st.cache_data entries of the loader
    pc,                   \* "idle" | "crashed" | "stopped" | "rendered"
    df,                   \* the script's df after its last run
    price_ranges,         \* tier label -> displayed bounds (tiered variant)
    reported,             \* st.error was called in the last run
    results,              \* per script run: what the loader gave, the year, cache empty?
    charts,               \* the chart descriptions handed to st.altair_chart
    brush,                \* time_selection / brush_selection
    selected_y_axis_label,\* sidebar selectbox (dataviz)
    selected_price_tier,  \* selectbox 'seasonal_filter' (tiered)
    event                 \* the last user interaction

vars == <<variant, source, file, clock, cache, pc, df, price_ranges, reported,
          results, charts, brush, selected_y_axis_label, selected_price_tier,
          event>>

(***************************************************************************)
(* Bounds and program constants                                            *)
(***************************************************************************)
MaxRows == 2          \* records per file drawn from the fault catalogue
MaxPriceRows == 5     \* records per file that differ in price only
MaxTableRows == 4     \* records per file of a dashboard session
MaxRuns == 2          \* script runs per session of the loader specification
MaxTicks == 1         \* new-year rollovers during a session

FoundingYear == 2008
Clock0 == 2026

(***************************************************************************)
(* Values                                                                  *)
(***************************************************************************)
NA == [t |-> "nan"]
Num(n) == [t |-> "num", v |-> n]
Inf(sign) == [t |-> "inf", v |-> sign]
Text(chars) == [t |-> "text", s |-> chars]
Str(x) == [t |-> "str", s |-> x]
Bool(x) == [t |-> "bool", b |-> x]
Date(y, m) == [t |-> "date", y |-> y, m |-> m]

isna(x) == x.t = "nan"

\* Python / numpy comparisons on floats: every comparison with NaN is False.
Gt(x, n) == \/ x.t = "num" /\ x.v > n
            \/ x.t = "inf" /\ x.v > 0
Ge(x, n) == \/ x.t = "num" /\ x.v >= n
            \/ x.t = "inf" /\ x.v > 0
Le(x, n) == \/ x.t = "num" /\ x.v <= n
            \/ x.t = "inf" /\ x.v < 0
NeInf(x) == \/ x.t = "num"
            \/ x.t = "inf" /\ x.v < 0
            \/ x.t = "nan"

(***************************************************************************)
(* Text to number                                                          *)
(***************************************************************************)
DigitChars == {"0", "1", "2", "3", "4", "5", "6", "7", "8", "9"}

DigitVal(c) ==
    CASE c = "0" -> 0 [] c = "1" -> 1 [] c = "2" -> 2 [] c = "3" -> 3
      [] c = "4" -> 4 [] c = "5" -> 5 [] c = "6" -> 6 [] c = "7" -> 7
      [] c = "8" -> 8 [] c = "9" -> 9

RECURSIVE DigitsValue(_, _)
DigitsValue(chars, acc) ==
    IF chars = <<>> THEN acc
    ELSE DigitsValue(Tail(chars), 10 * acc + DigitVal(Head(chars)))

AllDigits(chars) == chars # <<>> /\ \A i \in 1..Len(chars) : chars[i] \in DigitChars

\* read_csv's default na_values, as far as the alphabet of the model reaches
NaTexts == {<<>>, <<"N", "/", "A">>, <<"n", "a", "n">>}

\* pd.to_numeric(column, errors='coerce') on one cell
to_numeric(x) ==
    IF x.t # "text" THEN x
    ELSE IF x.s \in NaTexts THEN NA
    ELSE IF x.s = <<"i", "n", "f">> THEN Inf(1)
    ELSE IF x.s = <<"-", "i", "n", "f">> THEN Inf(-1)
    ELSE IF AllDigits(x.s) THEN Num(DigitsValue(x.s, 0))
    ELSE IF Head(x.s) = "-" /\ AllDigits(Tail(x.s)) THEN Num(0 - DigitsValue(Tail(x.s), 0))
    ELSE NA

\* .astype(str): a missing cell becomes the text 'nan'
astype_str(x) == IF isna(x) THEN Text(<<"n", "a", "n">>) ELSE x

\* .str.replace(r'[$,]', '', regex=True)
RECURSIVE StripChars(_)
StripChars(chars) ==
    IF chars = <<>> THEN <<>>
    ELSE IF Head(chars) \in {"$", ","} THEN StripChars(Tail(chars))
    ELSE <<Head(chars)>> \o StripChars(Tail(chars))

str_replace(x) == Text(StripChars(x.s))

(***************************************************************************)
(* Dates                                                                   *)
(***************************************************************************)
\* A host_since cell as written in the file: fmt "mdy" is MM/DD/YYYY, "iso"
\* is YYYY-MM-DD, "junk" is anything no parser accepts.
DateText(fmt, y, m) == [t |-> "datetext", fmt |-> fmt, y |-> y, m |-> m]

\* pd.to_datetime(col, format='%m/%d/%Y', errors='coerce')
to_datetime_format(x) ==
    IF x.t = "datetext" /\ x.fmt = "mdy" THEN Date(x.y, x.m) ELSE NA

\* pd.to_datetime(col, errors='coerce'), each cell parsed on its own
to_datetime(x) ==
    IF x.t = "datetext" /\ x.fmt \in {"mdy", "iso"} THEN Date(x.y, x.m) ELSE NA

dt_year(x) == IF x.t = "date" THEN Num(x.y) ELSE NA
dt_month(x) == IF x.t = "date" THEN Num(x.m) ELSE NA

(***************************************************************************)
(* Data frames: sequences of rows, a row a record of cells                 *)
(***************************************************************************)
\* F applied to the value of x (x is evaluated once)
Apply(x, F(_)) == CHOOSE y \in { F(v) : v \in {x} } : TRUE

MapRows(rows, F(_)) == [i \in 1..Len(rows) |-> F(rows[i])]
Map(frame, F(_)) == Apply(frame, LAMBDA rows : MapRows(rows, F))

\* df.dropna(subset=cols)
dropna(frame, cols) == SelectSeq(frame, LAMBDA r : \A c \in cols : ~isna(r[c]))

numeric_cols == {"price", "reviews_per_month", "review_scores_rating",
                 "calculated_host_listings_count"}

\* for col in numeric_cols: df[col] = pd.to_numeric(df[col], errors='coerce')
NumericRow(r) == [r EXCEPT !.price = to_numeric(@),
                           !.reviews_per_month = to_numeric(@),
                           !.review_scores_rating = to_numeric(@),
                           !.calculated_host_listings_count = to_numeric(@)]

\* .astype(str).str.lower().map({'t': True, 'f': False, 'true': True, 'false': False})
Lower(x) ==
    CASE x \in {"t", "T"} -> "t"
      [] x \in {"f", "F"} -> "f"
      [] x \in {"true", "True", "TRUE"} -> "true"
      [] x \in {"false", "False", "FALSE"} -> "false"
      [] OTHER -> x

superhost_map(x) ==
    IF x.t # "str" THEN NA
    ELSE IF Lower(x.s) \in {"t", "true"} THEN Bool(TRUE)
    ELSE IF Lower(x.s) \in {"f", "false"} THEN Bool(FALSE)
    ELSE NA

(***************************************************************************)
(* datavisualization_assignment.py                                         *)
(***************************************************************************)
dataviz_required == numeric_cols \cup {"host_since", "host_start_year", "host_id",
                                       "neighbourhood_cleansed", "host_is_superhost",
                                       "room_type"}

\* The body of load_airbnb_data once read_csv has returned `frame`.
load_airbnb_data_clean(frame, current_year) ==
    LET d1 == Map(frame, LAMBDA r : [r EXCEPT !.host_since = to_datetime_format(@)])
        d2 == Map(d1, LAMBDA r : [r EXCEPT !.host_start_year = dt_year(r.host_since)])
        d3 == Map(d2, NumericRow)
        d4 == dropna(d3, dataviz_required)
        d5 == SelectSeq(d4, LAMBDA r : NeInf(r.reviews_per_month))
        d6 == SelectSeq(d5, LAMBDA r : Ge(r.reviews_per_month, 0))
        d7 == SelectSeq(d6, LAMBDA r : /\ Ge(r.host_start_year, FoundingYear)
                                       /\ Le(r.host_start_year, current_year))
        d8 == Map(d7, LAMBDA r : [r EXCEPT !.host_is_superhost = superhost_map(@)])
        d9 == dropna(d8, {"host_is_superhost"})
    IN  SelectSeq(d9, LAMBDA r : Gt(r.price, 0))

\* What a loader call gives: raised (an exception left the call), error
\* (st.error was called inside it), and the returned value.
Returned(frame, ranges, err) ==
    [raised |-> FALSE, error |-> err, df |-> frame, price_ranges |-> ranges]
Raised == [raised |-> TRUE, error |-> FALSE, df |-> <<>>, price_ranges |-> {}]

load_airbnb_data(src, records, current_year) ==
    IF src # "ok" THEN Raised
    ELSE Returned(load_airbnb_data_clean(records, current_year), {}, FALSE)

(***************************************************************************)
(* streamlit_app.py                                                        *)
(***************************************************************************)
nash_airbnb(src, records) ==
    IF src # "ok" THEN Raised ELSE Returned(records, {}, FALSE)

nash_required == numeric_cols \cup {"host_since", "host_start_year"}

\* The module-level preprocessing that follows df = nash_airbnb().
nash_preprocess(frame) ==
    LET d1 == Map(frame, LAMBDA r : [r EXCEPT !.host_since = to_datetime(@)])
        d2 == Map(d1, LAMBDA r : [r EXCEPT !.host_start_year = dt_year(r.host_since)])
        d3 == Map(Map(d2, NumericRow), NumericRow)
        d4 == dropna(d3, nash_required)
    IN  SelectSeq(d4, LAMBDA r : NeInf(r.reviews_per_month))

(***************************************************************************)
(* week6_assignment.py                                                     *)
(***************************************************************************)
RECURSIVE Insert(_, _)
Insert(x, sorted) ==
    IF sorted = <<>> THEN <<x>>
    ELSE IF x <= Head(sorted) THEN <<x>> \o sorted
    ELSE <<Head(sorted)>> \o Insert(x, Tail(sorted))

RECURSIVE Sort(_)
Sort(xs) ==
    IF xs = <<>> THEN <<>>
    ELSE Apply(Sort(Tail(xs)), LAMBDA sorted : Insert(Head(xs), sorted))

Prices(frame) == [i \in 1..Len(frame) |-> frame[i].price.v]

\* Series.quantile(pct / 100) with linear interpolation, times 100:
\* position (n - 1) * pct / 100 between the order statistics around it.
Interpolate(sorted, pct) ==
    LET pos  == (Len(sorted) - 1) * pct
        lo   == pos \div 100 + 1
        frac == pos % 100
    IN  IF frac = 0 THEN 100 * sorted[lo]
        ELSE 100 * sorted[lo] + frac * (sorted[lo + 1] - sorted[lo])

quantile(xs, pct) == Apply(Sort(xs), LAMBDA sorted : Interpolate(sorted, pct))

Min(xs) == CHOOSE x \in {xs[i] : i \in 1..Len(xs)} : \A j \in 1..Len(xs) : x <= xs[j]
Max(xs) == CHOOSE x \in {xs[i] : i \in 1..Len(xs)} : \A j \in 1..Len(xs) : x >= xs[j]

\* f"{x:,.0f}" on a value given in hundredths: the nearest integer, ties to
\* even (the digits are then printed behind "$" with thousands separators).
format_0f(x100) ==
    LET q == x100 \div 100
        r == x100 % 100
    IN  IF r > 50 \/ (r = 50 /\ q % 2 = 1) THEN q + 1 ELSE q

\* assign_tier, with low_bound and high_bound in hundredths
\* (mutant) the cut points compared with < instead of <=
assign_tier_strict(price, low, high) ==
    IF 100 * price < low THEN "Budget"
    ELSE IF 100 * price < high THEN "Mid-Range"
    ELSE "Premium"

assign_tier(price, low, high) ==
    IF 100 * price <= low THEN "Budget"
    ELSE IF 100 * price <= high THEN "Mid-Range"
    ELSE "Premium"

low_bound(frame) == quantile(Prices(frame), 33)
high_bound(frame) == quantile(Prices(frame), 66)

\* The price_ranges dict built from the trimmed frame.
tier_ranges(frame) ==
    LET min_price == 100 * Min(Prices(frame))
        max_price == 100 * Max(Prices(frame))
    IN  Apply(<<low_bound(frame), high_bound(frame)>>, LAMBDA q : { 
          [tier |-> "Budget", lo |-> format_0f(min_price), hi |-> format_0f(q[1])],
          [tier |-> "Mid-Range", lo |-> format_0f(q[1]), hi |-> format_0f(q[2])],
          [tier |-> "Premium", lo |-> format_0f(q[2]), hi |-> format_0f(max_price)] })

\* df = df[df['price'].between(low_quantile, high_quantile)]
between(rows, low_quantile, high_quantile) ==
    SelectSeq(rows, LAMBDA r : /\ low_quantile <= 100 * r.price.v
                               /\ 100 * r.price.v <= high_quantile)

trim_outliers(frame) ==
    Apply(frame, LAMBDA rows :
        Apply(<<quantile(Prices(rows), 5), quantile(Prices(rows), 95)>>,
              LAMBDA q : between(rows, q[1], q[2])))

\* df['price_tier'] = df['price'].apply(assign_tier)
add_price_tier(frame) ==
    Apply(frame, LAMBDA rows :
        Apply(<<low_bound(rows), high_bound(rows)>>, LAMBDA q :
            MapRows(rows, LAMBDA r :
                [r EXCEPT !.price_tier = Str(assign_tier(r.price.v, q[1], q[2]))])))

tiered_required == {"price", "host_since", "host_id", "property_type"}

\* The part of load_and_clean_data under `if 'price' in df.columns and
\* len(df['price']) > 0`, on the frame the year filter leaves.
trim_and_tier(frame) ==
    Apply(frame, LAMBDA rows :
        IF Len(rows) > 0
        THEN Apply(trim_outliers(rows), LAMBDA trimmed :
                 IF Len(trimmed) > 0                        \* if not df.empty
                 THEN Returned(dropna(add_price_tier(trimmed), {"price_tier"}),
                               tier_ranges(trimmed), FALSE)
                 ELSE Returned(trimmed, {}, FALSE))
        ELSE Returned(rows, {}, FALSE))

\* The body of load_and_clean_data once read_csv has returned `frame`.
load_and_clean_data_clean(frame, current_year) ==
    LET d1 == Map(frame, LAMBDA r : [r EXCEPT !.price = to_numeric(str_replace(astype_str(@)))])
        d2 == Map(d1, LAMBDA r : [r EXCEPT !.host_since = to_datetime(@)])
        d3 == Map(d2, LAMBDA r : [r EXCEPT !.host_start_year = dt_year(r.host_since),
                                           !.host_start_month = dt_month(r.host_since)])
        d4 == dropna(d3, tiered_required)
        d5 == SelectSeq(d4, LAMBDA r : /\ Ge(r.host_start_year, FoundingYear)
                                       /\ Le(r.host_start_year, current_year))
    IN  trim_and_tier(d5)

load_and_clean_data(src, records, current_year) ==
    IF src = "absent" THEN Returned(<<>>, {}, TRUE)     \* except FileNotFoundError
    ELSE IF src # "ok" THEN Raised
    ELSE load_and_clean_data_clean(records, current_year)

(***************************************************************************)
(* The interval selection and the charts                                   *)
(***************************************************************************)
Unset == [set |-> FALSE, y0 |-> 0, y1 |-> 0]
Range(y0, y1) == [set |-> TRUE, y0 |-> y0, y1 |-> y1]

\* alt.selection_interval(encodings=['x'], empty='all', resolve='global') as a
\* predicate on rows: an empty selection selects every row.
\* (mutant) the upper end of the interval left out
time_selection_half_open(b, r) ==
    IF ~b.set THEN TRUE
    ELSE b.y0 <= r.host_start_year.v /\ r.host_start_year.v < b.y1

\* (mutant) empty='none': an empty selection selects no row
time_selection_empty_none(b, r) ==
    IF ~b.set THEN FALSE
    ELSE b.y0 <= r.host_start_year.v /\ r.host_start_year.v <= b.y1

time_selection(b, r) ==
    IF ~b.set THEN TRUE
    ELSE b.y0 <= r.host_start_year.v /\ r.host_start_year.v <= b.y1

\* alt.selection_interval(encodings=['x'], empty='all') of week6_assignment.py
brush_selection(b, r) ==
    IF ~b.set THEN TRUE
    ELSE b.y0 <= r.host_start_year.v /\ r.host_start_year.v <= b.y1

RECURSIVE SumCol(_, _)
SumCol(frame, col) ==
    IF frame = <<>> THEN 0 ELSE Head(frame)[col].v + SumCol(Tail(frame), col)

Keys(frame, by) == {frame[i][by] : i \in 1..Len(frame)}
Group(frame, by, k) == SelectSeq(frame, LAMBDA r : r[by] = k)

\* One mark per value of the grouping field; the aggregate is kept as the
\* fraction num / den.
count_by(frame, by) ==
    { [key |-> k, num |-> Len(Group(frame, by, k)), den |-> 1] : k \in Keys(frame, by) }
mean_by(frame, by, col) ==
    { [key |-> k, num |-> SumCol(Group(frame, by, k), col), den |-> Len(Group(frame, by, k))]
        : k \in Keys(frame, by) }

\* alt.Chart(data)...: the table it is built on and the marks it shows
Chart(name, data, marks) == [name |-> name, n_data |-> Len(data), marks |-> marks]

y_axis_labels == {"Number of New Hosts", "Average Reviews per Month",
                  "Average Listing Price", "Average Overall Rating",
                  "Average Host Listings Count"}

y_axis_options(label) ==
    CASE label = "Number of New Hosts" -> "num_hosts"
      [] label = "Average Reviews per Month" -> "reviews_per_month"
      [] label = "Average Listing Price" -> "price"
      [] label = "Average Overall Rating" -> "review_scores_rating"
      [] label = "Average Host Listings Count" -> "calculated_host_listings_count"

main_chart_spec(frame, label) ==
    IF y_axis_options(label) = "num_hosts"
    THEN Chart("main_chart_spec", frame, count_by(frame, "host_start_year"))
    ELSE Chart("main_chart_spec", frame,
               mean_by(frame, "host_start_year", y_axis_options(label)))

\* .transform_filter(time_selection)
transform_filter(frame, b) == SelectSeq(frame, LAMBDA r : time_selection(b, r))

\* The histogram's bins are taken at their finest (one per price): Vega's
\* binning merges neighbouring prices and leaves the total unchanged.
price_dist_chart(frame, b) ==
    Chart("price_dist_chart", frame, count_by(transform_filter(frame, b), "price"))
neighborhood_chart(frame, b) ==
    Chart("neighborhood_chart", frame,
          count_by(transform_filter(frame, b), "neighbourhood_cleansed"))
superhost_chart(frame, b) ==
    Chart("superhost_chart", frame, count_by(transform_filter(frame, b), "host_is_superhost"))
room_type_chart(frame, b) ==
    Chart("room_type_chart", frame, count_by(transform_filter(frame, b), "room_type"))

\* week6_assignment.py
host_year_chart(frame) ==
    Chart("host_year_chart", frame, count_by(frame, "host_start_year"))

tiered_price_dist_chart(frame, b) ==
    Chart("price_dist_chart", frame,
          count_by(SelectSeq(frame, LAMBDA r : brush_selection(b, r)), "price"))

\* 'price_tier' in df.columns
has_price_tier(frame) == \A i \in 1..Len(frame) : frame[i].price_tier.t = "str"

\* ['All'] + sorted(df['price_tier'].unique().tolist())
price_tier_options(frame) ==
    IF has_price_tier(frame)
    THEN {"All"} \cup {frame[i].price_tier.s : i \in 1..Len(frame)}
    ELSE {"All"}

\* (mutant) the dropdown ignored
seasonal_df_unfiltered(frame, tier) == frame

seasonal_df(frame, tier) ==
    IF tier = "All" \/ ~has_price_tier(frame) THEN frame
    ELSE SelectSeq(frame, LAMBDA r : r.price_tier.s = tier)

seasonal_chart(frame, tier) ==
    IF Len(seasonal_df(frame, tier)) > 0
    THEN << Chart("seasonal_chart", seasonal_df(frame, tier),
                  count_by(seasonal_df(frame, tier), "host_start_month")) >>
    ELSE <<>>

\* (mutant) the primary chart filtered by its own selection
dataviz_charts_main_filtered(frame, b, label) ==
    << main_chart_spec(transform_filter(frame, b), label), price_dist_chart(frame, b),
       neighborhood_chart(frame, b), superhost_chart(frame, b), room_type_chart(frame, b) >>

\* Everything one run of a script hands to st.altair_chart, in order.
dataviz_charts(frame, b, label) ==
    << main_chart_spec(frame, label), price_dist_chart(frame, b),
       neighborhood_chart(frame, b), superhost_chart(frame, b), room_type_chart(frame, b) >>

tiered_charts(frame, b, tier) ==
    << host_year_chart(frame), tiered_price_dist_chart(frame, b) >> \o seasonal_chart(frame, tier)

(***************************************************************************)
(* Input files                                                             *)
(***************************************************************************)
Chars1200 == <<"$", "1", ",", "2", "0", "0">>
Digits1200 == <<"1", "2", "0", "0">>

\* A record every variant keeps.
BaseRow ==
    [ host_id |-> Str("h1"),
      price |-> Text(<<"9", "5", "0">>),
      host_since |-> DateText("mdy", 2016, 6),
      reviews_per_month |-> Text(<<"2">>),
      review_scores_rating |-> Text(<<"5">>),
      calculated_host_listings_count |-> Text(<<"1">>),
      neighbourhood_cleansed |-> Str("Downtown"),
      host_is_superhost |-> Str("t"),
      room_type |-> Str("Entire home/apt"),
      property_type |-> Str("House"),
      host_start_year |-> NA,
      host_start_month |-> NA,
      price_tier |-> NA ]

\* The base record and its one-cell variations: each cleaning rule meets a
\* cell it rejects and a cell it accepts.
FaultRows ==
    << BaseRow,
       [BaseRow EXCEPT !.price = Text(Chars1200)],
       [BaseRow EXCEPT !.price = Text(<<"N", "/", "A">>)],
       [BaseRow EXCEPT !.price = Text(<<"0">>)],
       [BaseRow EXCEPT !.price = Text(<<"-", "5">>)],
       [BaseRow EXCEPT !.price = Text(<<"1", "0", "0">>)],
       [BaseRow EXCEPT !.host_since = DateText("mdy", FoundingYear - 1, 12)],
       [BaseRow EXCEPT !.host_since = DateText("mdy", FoundingYear, 1)],
       [BaseRow EXCEPT !.host_since = DateText("iso", 2020, 3)],
       [BaseRow EXCEPT !.host_since = DateText("mdy", Clock0 + 1, 1)],
       [BaseRow EXCEPT !.host_since = DateText("junk", 0, 0)],
       [BaseRow EXCEPT !.host_since = NA],
       [BaseRow EXCEPT !.reviews_per_month = Text(<<"-", "1">>)],
       [BaseRow EXCEPT !.reviews_per_month = Text(<<"i", "n", "f">>)],
       [BaseRow EXCEPT !.reviews_per_month = Text(<<"-", "i", "n", "f">>)],
       [BaseRow EXCEPT !.reviews_per_month = NA],
       [BaseRow EXCEPT !.review_scores_rating = NA],
       [BaseRow EXCEPT !.calculated_host_listings_count = Text(<<"N", "/", "A">>)],
       [BaseRow EXCEPT !.host_id = NA],
       [BaseRow EXCEPT !.neighbourhood_cleansed = NA],
       [BaseRow EXCEPT !.room_type = NA],
       [BaseRow EXCEPT !.property_type = NA],
       [BaseRow EXCEPT !.host_is_superhost = NA],
       [BaseRow EXCEPT !.host_is_superhost = Str("x")],
       [BaseRow EXCEPT !.host_is_superhost = Str("False")] >>

\* Records that differ in price only, for the quantile trim and the tiers.
PriceRows ==
    << [BaseRow EXCEPT !.price = Text(<<"1", "0", "0">>)],
       [BaseRow EXCEPT !.price = Text(<<"1", "5", "5">>)],
       [BaseRow EXCEPT !.price = Text(<<"9", "5", "0">>)],
       [BaseRow EXCEPT !.price = Text(Chars1200)] >>

\* Records of a dashboard session: three cohorts, two prices, and the
\* categorical cells varying with them.
SessionRow(y, digits) ==
    [BaseRow EXCEPT !.host_since = DateText("mdy", y, IF y = 2016 THEN 6 ELSE 11),
                    !.price = Text(digits),
                    !.host_is_superhost = IF y = 2015 THEN Str("f") ELSE Str("t"),
                    !.room_type = IF digits = Digits1200 THEN Str("Entire home/apt")
                                  ELSE Str("Private room"),
                    !.neighbourhood_cleansed = IF y = 2020 THEN Str("East Nashville")
                                               ELSE Str("Downtown")]

SessionRows ==
    << SessionRow(2015, <<"1", "0", "0">>), SessionRow(2016, <<"1", "0", "0">>),
       SessionRow(2016, Digits1200), SessionRow(2020, Digits1200) >>

\* f is a file of at most n records of the catalogue, listed in catalogue
\* order (no operation of the scripts depends on the order of the records).
IsFile(f, catalogue, n) ==
    \E k \in 0..n : \E idx \in [1..k -> 1..Len(catalogue)] :
        /\ \A i \in 1..(k - 1) : idx[i] <= idx[i + 1]
        /\ f = [i \in 1..k |-> catalogue[idx[i]]]

(***************************************************************************)
(* One run of each script                                                  *)
(***************************************************************************)
\* @st.cache_data: the stored return value when there is one (a call that
\* raised stores nothing), else the value the call computes.
\* (mutant) the decorator missing: every call computes
st_cache_data_missing(entries, computed) == computed

st_cache_data(entries, computed) ==
    IF entries # <<>> THEN entries[1] ELSE computed

store(entries, r) == IF r.raised THEN entries ELSE <<r>>

Crashed(entries, r) ==
    [cache |-> entries, pc |-> "crashed", df |-> <<>>, price_ranges |-> {},
     reported |-> FALSE, result |-> r, charts |-> <<>>]

\* datavisualization_assignment.py, top to bottom
datavisualization_assignment(src, records, now, entries, b, label) ==
    Apply(st_cache_data(entries, load_airbnb_data(src, records, now)), LAMBDA r :
        IF r.raised THEN Crashed(entries, r)
        ELSE [cache |-> store(entries, r), pc |-> "rendered", df |-> r.df,
              price_ranges |-> {}, reported |-> FALSE, result |-> r,
              charts |-> dataviz_charts(r.df, b, label)])

\* week6_assignment.py, top to bottom; st.cache_data replays the st.error made
\* inside a cached call
week6_assignment(src, records, now, entries, b, tier) ==
    Apply(st_cache_data(entries, load_and_clean_data(src, records, now)), LAMBDA r :
        IF r.raised THEN Crashed(entries, r)
        ELSE IF Len(r.df) = 0                      \* if df.empty: st.error; st.stop()
        THEN [cache |-> store(entries, r), pc |-> "stopped", df |-> r.df,
              price_ranges |-> r.price_ranges, reported |-> TRUE, result |-> r,
              charts |-> <<>>]
        ELSE [cache |-> store(entries, r), pc |-> "rendered", df |-> r.df,
              price_ranges |-> r.price_ranges, reported |-> r.error, result |-> r,
              charts |-> tiered_charts(r.df, b, tier)])

\* streamlit_app.py, top to bottom: no chart, the frame is shown as a table
streamlit_app(src, records, entries) ==
    Apply(st_cache_data(entries, nash_airbnb(src, records)), LAMBDA r :
        IF r.raised THEN Crashed(entries, r)
        ELSE Apply(nash_preprocess(r.df), LAMBDA frame :
                 [cache |-> store(entries, r), pc |-> "rendered", df |-> frame,
                  price_ranges |-> {}, reported |-> FALSE,
                  result |-> [r EXCEPT !.df = frame], charts |-> <<>>]))

Script(v, src, records, now, entries, b, label, tier) ==
    CASE v = "dataviz" -> datavisualization_assignment(src, records, now, entries, b, label)
      [] v = "tiered"  -> week6_assignment(src, records, now, entries, b, tier)
      [] v = "nash"   -> streamlit_app(src, records, entries)

Variants == {"dataviz", "tiered", "nash"}
Sources == {"ok", "absent", "unreadable"}

\* time_selection / brush_selection as created: nothing selected
\* (mutant) the selection created with value={'x': [2016, 2016]}
InitialBrush_preset == Range(2016, 2016)

InitialBrush == Unset

(***************************************************************************)
(* LoaderSpec: a session of script runs over one file                      *)
(***************************************************************************)
LoaderInit ==
    /\ variant \in Variants
    /\ source \in Sources
    /\ IF source = "ok"
       THEN IsFile(file, FaultRows, MaxRows) \/ IsFile(file, PriceRows, MaxPriceRows)
       ELSE file = <<>>
    /\ clock = Clock0
    /\ cache = <<>>
    /\ pc = "idle"
    /\ df = <<>>
    /\ price_ranges = {}
    /\ reported = FALSE
    /\ results = <<>>
    /\ charts = <<>>
    /\ brush = InitialBrush
    /\ selected_y_axis_label = "Number of New Hosts"
    /\ selected_price_tier = "All"
    /\ event = "none"

\* The script runs to completion (or to the exception that ends it).
Run ==
    /\ Len(results) < MaxRuns
    /\ \E out \in {Script(variant, source, file, clock, cache, brush,
                          selected_y_axis_label, selected_price_tier)} :
           /\ cache' = out.cache
           /\ pc' = out.pc
           /\ df' = out.df
           /\ price_ranges' = out.price_ranges
           /\ reported' = out.reported
           /\ results' = Append(results, [value |-> out.result, year |-> clock,
                                           fresh |-> cache = <<>>])
           /\ charts' = out.charts
    /\ event' = "run"
    /\ UNCHANGED <<variant, source, file, clock, brush, selected_y_axis_label,
                   selected_price_tier>>

\* New Year passes between two runs.
Tick ==
    /\ clock < Clock0 + MaxTicks
    /\ clock' = clock + 1
    /\ UNCHANGED <<variant, source, file, cache, pc, df, price_ranges, reported,
                   results, charts, brush, selected_y_axis_label,
                   selected_price_tier, event>>

\* The server restarts, or "Clear cache" is chosen from the app menu: the
\* st.cache_data entries live in the server process only.
ClearCache ==
    /\ cache # <<>>
    /\ Len(results) < MaxRuns
    /\ cache' = <<>>
    /\ UNCHANGED <<variant, source, file, clock, pc, df, price_ranges, reported,
                   results, charts, brush, selected_y_axis_label,
                   selected_price_tier, event>>

LoaderNext == Run \/ Tick \/ ClearCache

LoaderSpec == LoaderInit /\ [][LoaderNext]_vars

(***************************************************************************)
(* Spec: one dashboard session, from the page as first rendered            *)
(***************************************************************************)
\* The cohort years a drag on the ordinal x axis can start or end at.
BrushYears == {2015, 2016, 2020}

\* What the page shows for the current widget and brush state.
Render(v, frame, b, label, tier) ==
    IF v = "dataviz" THEN dataviz_charts(frame, b, label) ELSE tiered_charts(frame, b, tier)

Init ==
    /\ variant \in {"dataviz", "tiered"}
    /\ source = "ok"
    /\ IsFile(file, SessionRows, MaxTableRows)
    /\ clock = Clock0
    /\ brush = InitialBrush
    /\ selected_y_axis_label = "Number of New Hosts"
    /\ selected_price_tier = "All"
    /\ event = "run"
    /\ \E out \in {Script(variant, source, file, clock, <<>>, brush,
                          selected_y_axis_label, selected_price_tier)} :
           /\ cache = out.cache
           /\ pc = out.pc
           /\ df = out.df
           /\ price_ranges = out.price_ranges
           /\ reported = out.reported
           /\ results = << [value |-> out.result, year |-> clock, fresh |-> TRUE] >>
           /\ charts = out.charts

\* The brush lives in the rendered page: Vega re-evaluates every chart bound
\* to the selection, the script does not run.
SetBrush(b, ev) ==
    /\ brush' = b
    /\ charts' = Render(variant, df, b, selected_y_axis_label, selected_price_tier)
    /\ event' = ev
    /\ UNCHANGED <<variant, source, file, clock, cache, pc, df, price_ranges,
                   reported, results, selected_y_axis_label, selected_price_tier>>

DragSelect(y0, y1) ==
    /\ pc = "rendered"
    /\ ~brush.set
    /\ y0 <= y1
    /\ SetBrush(Range(y0, y1), "drag-select")

DragAdjust(y0, y1) ==
    /\ pc = "rendered"
    /\ brush.set
    /\ y0 <= y1
    /\ Range(y0, y1) # brush
    /\ SetBrush(Range(y0, y1), "drag-adjust")

ClearBrush ==
    /\ pc = "rendered"
    /\ brush.set
    /\ SetBrush(Unset, "clear")

\* A widget change reruns the script; the loader call is served from the
\* cache and the page keeps the brush.
Rerun(label, tier, ev) ==
    \E out \in {Script(variant, source, file, clock, cache, brush, label, tier)} :
        /\ cache' = out.cache
        /\ pc' = out.pc
        /\ df' = out.df
        /\ price_ranges' = out.price_ranges
        /\ reported' = out.reported
        /\ charts' = out.charts
        /\ selected_y_axis_label' = label
        /\ selected_price_tier' = tier
        /\ event' = ev
        /\ UNCHANGED <<variant, source, file, clock, results, brush>>

SelectMetric(label) ==
    /\ pc = "rendered"
    /\ variant = "dataviz"
    /\ label # selected_y_axis_label
    /\ Rerun(label, selected_price_tier, "select-metric")

SelectPriceTier(tier) ==
    /\ pc = "rendered"
    /\ variant = "tiered"
    /\ tier \in price_tier_options(df)
    /\ tier # selected_price_tier
    /\ Rerun(selected_y_axis_label, tier, "select-tier")

BrushNext ==
    \/ \E y0, y1 \in BrushYears : DragSelect(y0, y1)
    \/ \E y0, y1 \in BrushYears : DragAdjust(y0, y1)
    \/ ClearBrush

Next ==
    \/ BrushNext
    \/ \E label \in y_axis_labels : SelectMetric(label)
    \/ \E tier \in {"All", "Budget", "Mid-Range", "Premium"} : SelectPriceTier(tier)

Spec == Init /\ [][Next]_vars

(***************************************************************************)
(* Properties                                                              *)
(***************************************************************************)
Rows == 1..Len(df)

RECURSIVE MarkTotal(_)
MarkTotal(marks) ==
    IF marks = {} THEN 0
    ELSE \* the rows a chart counts: the sum of its bars
         Apply(CHOOSE m \in marks : TRUE, LAMBDA m : m.num + MarkTotal(marks \ {m}))

InBrush(i) == ~brush.set \/ (brush.y0 <= df[i].host_start_year.v /\ df[i].host_start_year.v <= brush.y1)

\* The charts bound to the selection: all but the first chart of dataviz,
\* the price histogram of tiered.
Secondary ==
    IF pc # "rendered" THEN {}
    ELSE IF variant = "dataviz" THEN 2..5
    ELSE IF variant = "tiered" THEN {2}
    ELSE {}

SecondaryField(k) ==
    CASE k = 2 -> "price"
      [] k = 3 -> "neighbourhood_cleansed"
      [] k = 4 -> "host_is_superhost"
      [] k = 5 -> "room_type"

\* The variant's required columns, and the cells of a retained row as the
\* numeric parser reads them.
RequiredCols ==
    CASE variant = "dataviz" -> dataviz_required
      [] variant = "tiered" -> tiered_required
      [] variant = "nash" -> nash_required

RowValid(r) ==
    /\ Gt(to_numeric(r.price), 0)
    /\ Ge(r.host_start_year, FoundingYear) /\ Le(r.host_start_year, clock)
    /\ to_numeric(r.reviews_per_month).t = "num"
    /\ Ge(to_numeric(r.reviews_per_month), 0)
    /\ \A c \in RequiredCols : ~isna(r[c])

\* C1: every row retained by a loader variant has price > 0, host_start_year
\* within [2008, current year], a finite reviews_per_month >= 0 and no missing
\* required column.
C1_RetainedRowsValid ==
    pc \in {"rendered", "stopped"} => \A i \in Rows : RowValid(df[i])

\* C2: with the brush set to [y0, y1] every secondary chart counts exactly the
\* rows whose host_start_year lies in the range, and a step that narrows the
\* range never raises a secondary chart's count.
BrushCount == Cardinality({i \in Rows : InBrush(i)})

C2_SetCounts ==
    brush.set => \A k \in Secondary : MarkTotal(charts[k].marks) = BrushCount

C2_Narrowing ==
    (/\ brush.set /\ brush'.set
     /\ brush.y0 <= brush'.y0 /\ brush'.y1 <= brush.y1)
    => \A k \in Secondary : MarkTotal(charts'[k].marks) <= MarkTotal(charts[k].marks)

C2_BrushFiltersSecondaryCharts == [](C2_SetCounts) /\ [][C2_Narrowing]_vars

C2_Witness ==
    /\ variant = "dataviz" /\ pc = "rendered"
    /\ brush = Range(2016, 2016)
    /\ Len(df) = 4
    /\ {df[i].host_start_year.v : i \in Rows} = {2015, 2016, 2020}
    /\ \A k \in Secondary : MarkTotal(charts[k].marks) = 2

\* C3: while the brush is unset, at first and after a clear, every secondary
\* chart shows the aggregate over the whole cleaned table.
C3_UnsetShowsWholeTable ==
    ~brush.set =>
        \A k \in Secondary :
            /\ {m.key : m \in charts[k].marks} = {df[i][SecondaryField(k)] : i \in Rows}
            /\ \A m \in charts[k].marks :
                   /\ m.den = 1
                   /\ m.num = Cardinality({i \in Rows : df[i][SecondaryField(k)] = m.key})

C3_Witness ==
    /\ variant = "dataviz" /\ pc = "rendered"
    /\ event = "clear" /\ ~brush.set
    /\ Len(df) = 4
    /\ Cardinality(charts[5].marks) = 2

\* C4 (as claimed): the seasonal chart counts a row iff the row passes the
\* price-tier dropdown and the brush.
PassesDropdown(i) ==
    selected_price_tier = "All" \/ df[i].price_tier.s = selected_price_tier

SeasonalMarks ==
    IF Len(charts) >= 3 THEN charts[3].marks ELSE {}

SeasonalCounts(Counted(_)) ==
    /\ {m.key : m \in SeasonalMarks} = {df[i].host_start_month : i \in {j \in Rows : Counted(j)}}
    /\ \A m \in SeasonalMarks :
           m.num = Cardinality({i \in Rows : Counted(i) /\ df[i].host_start_month = m.key})

C4_SeasonalDropdownAndBrush ==
    (variant = "tiered" /\ pc = "rendered")
    => SeasonalCounts(LAMBDA i : PassesDropdown(i) /\ InBrush(i))

\* C4 (amended): the seasonal chart counts a row iff the row passes the
\* price-tier dropdown, whatever the brush selects.
C4_SeasonalDropdownOnly ==
    (variant = "tiered" /\ pc = "rendered")
    => SeasonalCounts(LAMBDA i : PassesDropdown(i))

C4_Witness ==
    /\ variant = "tiered" /\ pc = "rendered"
    /\ selected_price_tier = "Premium"
    /\ brush.set
    /\ \E i \in Rows : PassesDropdown(i) /\ ~InBrush(i)
    /\ \E i \in Rows : ~PassesDropdown(i)
    /\ MarkTotal(SeasonalMarks) = Cardinality({i \in Rows : PassesDropdown(i)})

\* C5: the tier ranges [min, q33], [q33, q66], [q66, max] of a non-empty
\* trimmed frame follow one another without gap or overlap from min to max,
\* the displayed ranges share their cut points, and every row carries the
\* one label of the interval its price falls in.
Tier(t) == CHOOSE e \in price_ranges : e.tier = t

C5_TierPartition ==
    (variant = "tiered" /\ pc = "rendered") =>
        \A q33 \in {low_bound(df)}, q66 \in {high_bound(df)},
           lo \in {100 * Min(Prices(df))}, hi \in {100 * Max(Prices(df))} :
            /\ lo <= q33 /\ q33 <= q66 /\ q66 <= hi
            /\ {e.tier : e \in price_ranges} = {"Budget", "Mid-Range", "Premium"}
            /\ Cardinality(price_ranges) = 3
            /\ Tier("Budget").lo = format_0f(lo) /\ Tier("Budget").hi = format_0f(q33)
            /\ Tier("Mid-Range").lo = Tier("Budget").hi
            /\ Tier("Mid-Range").hi = format_0f(q66)
            /\ Tier("Premium").lo = Tier("Mid-Range").hi
            /\ Tier("Premium").hi = format_0f(hi)
            /\ Tier("Budget").lo <= Tier("Budget").hi
            /\ Tier("Mid-Range").lo <= Tier("Mid-Range").hi
            /\ Tier("Premium").lo <= Tier("Premium").hi
            /\ \A i \in Rows :
                   /\ df[i].price_tier.t = "str"
                   /\ df[i].price_tier.s = "Budget" <=> 100 * df[i].price.v <= q33
                   /\ df[i].price_tier.s = "Mid-Range"
                          <=> (q33 < 100 * df[i].price.v /\ 100 * df[i].price.v <= q66)
                   /\ df[i].price_tier.s = "Premium" <=> q66 < 100 * df[i].price.v

C5_Witness ==
    /\ variant = "tiered" /\ pc = "rendered"
    /\ {df[i].price_tier.s : i \in Rows} = {"Budget", "Mid-Range", "Premium"}
    /\ low_bound(df) % 100 # 0

\* C6: when the source file is absent or unreadable, or no row survives, the
\* run ends in a reported empty-dataset condition without raising, and no
\* chart is built on a table of zero rows.
C6_EmptyDatasetReported ==
    pc # "idle" =>
        /\ (source # "ok" \/ Len(df) = 0) => (pc = "stopped" /\ reported)
        /\ \A k \in 1..Len(charts) : charts[k].n_data > 0

\* C7: in every variant "$1,200" is read as 1200 and its row kept, "950" is
\* read as 950, and the row of "N/A" is dropped without an error.
C7_PriceCoercion ==
    pc \in {"rendered", "stopped"} =>
        /\ file = << [BaseRow EXCEPT !.price = Text(Chars1200)] >>
               => (Len(df) = 1 /\ to_numeric(df[1].price) = Num(1200))
        /\ file = << BaseRow >>
               => (Len(df) = 1 /\ to_numeric(df[1].price) = Num(950))
        /\ file = << [BaseRow EXCEPT !.price = Text(<<"N", "/", "A">>)] >>
               => Len(df) = 0

\* C8: the primary chart has one point per host_start_year of the table; the
\* point is the number of rows of the year for 'Number of New Hosts' and the
\* mean (sum / rows) of the chosen column otherwise, whatever the brush selects.
YearRows(y) == {i \in Rows : df[i].host_start_year = y}

ExpectedSum(y, col) ==
    LET S[i \in 0..Len(df)] ==
            IF i = 0 THEN 0
            ELSE S[i - 1] + (IF df[i].host_start_year = y THEN df[i][col].v ELSE 0)
    IN  S[Len(df)]

BrushWellFormed ==
    \/ brush = Unset
    \/ brush.set /\ brush.y0 \in BrushYears /\ brush.y1 \in BrushYears /\ brush.y0 <= brush.y1

BrushTransition ==
    /\ (~brush.set /\ brush'.set) <=> event' = "drag-select"
    /\ (brush.set /\ brush'.set /\ brush' # brush) <=> event' = "drag-adjust"
    /\ (brush.set /\ ~brush'.set) <=> event' = "clear"
    /\ brush' # brush => df' = df

====
